---- MODULE Spec2Model ----
(***************************************************************************)
(* Model of the autocomplete command of the Uppaal language server         *)
(* (src/src/autocomplete.cpp).  Text (names, xpaths, identifiers) is a     *)
(* tuple of one-character strings, so that suffix tests, the split at the  *)
(* last dot and the "_id<digits>" pattern are computed character by        *)
(* character as the code does.                                             *)
(***************************************************************************)
EXTENDS Integers, Sequences, FiniteSets

VARIABLES doc, pc, request, items, origin, prefix, type_filter_mask, first, served

vars == <<doc, pc, request, items, origin, prefix, type_filter_mask, first, served>>

(* ------------------------------ bounds -------------------------------- *)
\* Largest character offset of a request and of a symbol's source range.
MaxOffset == 1
\* Largest number of symbols the visibility walk enumerates in a document.
MaxSymbols == 1
\* Largest number of requests served in a run of the repeated-request machine.
MaxRequests == 3

(* ------------------------------ SymType ------------------------------- *)
function == 1
variable == 2
channel == 4
type == 8
process == 16
unknown == 32

\* uint8_t arithmetic: eight bits.
ByteWidth == 8

Byte == 2 ^ ByteWidth

RECURSIVE BitAnd(_, _)
BitAnd(a, b) ==
  IF a = 0 \/ b = 0 THEN 0
  ELSE (a % 2) * (b % 2) + 2 * BitAnd(a \div 2, b \div 2)

RECURSIVE BitOr(_, _)
BitOr(a, b) ==
  IF a = 0 THEN b
  ELSE IF b = 0 THEN a
  ELSE (IF a % 2 = 1 \/ b % 2 = 1 THEN 1 ELSE 0) + 2 * BitOr(a \div 2, b \div 2)

\* ~k on the promoted int; set_ignored_mask narrows it to uint8_t.
Complement(k) == -k - 1

(* ------------------------------- text --------------------------------- *)
ends_with(s, suffix) ==
  /\ Len(s) >= Len(suffix)
  /\ SubSeq(s, Len(s) - Len(suffix) + 1, Len(s)) = suffix

\* 1-based position of the last occurrence of c in s; 0 stands for npos.
find_last_of(s, c) ==
  IF \E i \in 1..Len(s) : s[i] = c
  THEN CHOOSE i \in 1..Len(s) : s[i] = c /\ \A j \in (i + 1)..Len(s) : s[j] # c
  ELSE 0

Digits == {"0", "1", "2", "3", "4", "5", "6", "7", "8", "9"}

is_digit(c) == c \in Digits

\* A test that knows only the pattern "_id" and one digit.
is_name_autogenerated_one_digit(name) ==
  /\ Len(name) = 4
  /\ SubSeq(name, 1, 3) = <<"_", "i", "d">>
  /\ is_digit(name[4])

\* substr(0, 3) == "_id" and every later character is a digit (none is enough).
is_name_autogenerated(name) ==
  /\ SubSeq(name, 1, IF Len(name) < 3 THEN Len(name) ELSE 3) = <<"_", "i", "d">>
  /\ \A i \in 4..Len(name) : is_digit(name[i])

(* --------------------------- vocabularies ----------------------------- *)
Suggestion(n, t) == [name |-> n, type |-> t]

guard_items ==
  << Suggestion(<<"t", "r", "u", "e">>, unknown),
     Suggestion(<<"f", "a", "l", "s", "e">>, unknown) >>

queries_items ==
  << Suggestion(<<"i", "n", "t">>, type),
     Suggestion(<<"t", "r", "u", "e">>, unknown),
     Suggestion(<<"f", "a", "l", "s", "e">>, unknown),
     Suggestion(<<"f", "o", "r", "a", "l", "l">>, unknown),
     Suggestion(<<"e", "x", "i", "s", "t", "s">>, unknown) >>

parameter_items ==
  << Suggestion(<<"i", "n", "t">>, type),
     Suggestion(<<"d", "o", "u", "b", "l", "e">>, type),
     Suggestion(<<"c", "l", "o", "c", "k">>, type),
     Suggestion(<<"c", "h", "a", "n">>, type),
     Suggestion(<<"b", "o", "o", "l">>, type),
     Suggestion(<<"b", "r", "o", "a", "d", "c", "a", "s", "t">>, unknown),
     Suggestion(<<"c", "o", "n", "s", "t">>, unknown),
     Suggestion(<<"u", "r", "g", "e", "n", "t">>, unknown) >>

default_items ==
  << Suggestion(<<"i", "n", "t">>, type),
     Suggestion(<<"d", "o", "u", "b", "l", "e">>, type),
     Suggestion(<<"c", "l", "o", "c", "k">>, type),
     Suggestion(<<"c", "h", "a", "n">>, type),
     Suggestion(<<"b", "o", "o", "l">>, type),
     Suggestion(<<"b", "r", "o", "a", "d", "c", "a", "s", "t">>, unknown),
     Suggestion(<<"c", "o", "n", "s", "t">>, unknown),
     Suggestion(<<"u", "r", "g", "e", "n", "t">>, unknown),
     Suggestion(<<"v", "o", "i", "d">>, unknown),
     Suggestion(<<"m", "e", "t", "a">>, unknown),
     Suggestion(<<"t", "r", "u", "e">>, unknown),
     Suggestion(<<"f", "a", "l", "s", "e">>, unknown),
     Suggestion(<<"f", "o", "r", "a", "l", "l">>, unknown),
     Suggestion(<<"e", "x", "i", "s", "t", "s">>, unknown),
     Suggestion(<<"r", "e", "t", "u", "r", "n">>, unknown),
     Suggestion(<<"t", "y", "p", "e", "d", "e", "f">>, unknown),
     Suggestion(<<"s", "t", "r", "u", "c", "t">>, unknown) >>

builtin_functions ==
  << Suggestion(<<"a", "b", "s">>, function),
     Suggestion(<<"f", "a", "b", "s">>, function),
     Suggestion(<<"f", "m", "o", "d">>, function),
     Suggestion(<<"f", "m", "a">>, function),
     Suggestion(<<"f", "m", "a", "x">>, function),
     Suggestion(<<"f", "m", "i", "n">>, function),
     Suggestion(<<"e", "x", "p">>, function),
     Suggestion(<<"e", "x", "p", "2">>, function),
     Suggestion(<<"e", "x", "p", "m", "1">>, function),
     Suggestion(<<"l", "n">>, function),
     Suggestion(<<"l", "o", "g">>, function),
     Suggestion(<<"l", "o", "g", "1", "0">>, function),
     Suggestion(<<"l", "o", "g", "2">>, function),
     Suggestion(<<"l", "o", "g", "1", "p">>, function),
     Suggestion(<<"p", "o", "w">>, function),
     Suggestion(<<"s", "q", "r", "t">>, function),
     Suggestion(<<"c", "b", "r", "t">>, function),
     Suggestion(<<"h", "y", "p", "o", "t">>, function),
     Suggestion(<<"s", "i", "n">>, function),
     Suggestion(<<"c", "o", "s">>, function),
     Suggestion(<<"t", "a", "n">>, function),
     Suggestion(<<"a", "s", "i", "n">>, function),
     Suggestion(<<"a", "c", "o", "s">>, function),
     Suggestion(<<"a", "t", "a", "n">>, function),
     Suggestion(<<"a", "t", "a", "n", "2">>, function),
     Suggestion(<<"s", "i", "n", "h">>, function),
     Suggestion(<<"c", "o", "s", "h">>, function),
     Suggestion(<<"t", "a", "n", "h">>, function),
     Suggestion(<<"a", "s", "i", "n", "h">>, function),
     Suggestion(<<"a", "c", "o", "s", "h">>, function),
     Suggestion(<<"a", "t", "a", "n", "h">>, function),
     Suggestion(<<"e", "r", "f">>, function),
     Suggestion(<<"e", "r", "f", "c">>, function),
     Suggestion(<<"t", "g", "a", "m", "m", "a">>, function),
     Suggestion(<<"l", "g", "a", "m", "m", "a">>, function),
     Suggestion(<<"c", "e", "i", "l">>, function),
     Suggestion(<<"f", "l", "o", "o", "r">>, function),
     Suggestion(<<"t", "r", "u", "n", "c">>, function),
     Suggestion(<<"r", "o", "u", "n", "d">>, function),
     Suggestion(<<"f", "i", "n", "t">>, function),
     Suggestion(<<"l", "d", "e", "x", "p">>, function),
     Suggestion(<<"i", "l", "o", "g", "b">>, function),
     Suggestion(<<"l", "o", "g", "b">>, function),
     Suggestion(<<"n", "e", "x", "t", "a", "f", "t", "e", "r">>, function),
     Suggestion(<<"c", "o", "p", "y", "s", "i", "g", "n">>, function),
     Suggestion(<<"s", "i", "g", "n", "b", "i", "t">>, function),
     Suggestion(<<"r", "a", "n", "d", "o", "m">>, function),
     Suggestion(<<"r", "a", "n", "d", "o", "m", "_", "n", "o", "r", "m", "a", "l">>, function),
     Suggestion(<<"r", "a", "n", "d", "o", "m", "_", "p", "o", "i", "s", "s", "o", "n">>, function),
     Suggestion(<<"r", "a", "n", "d", "o", "m", "_", "a", "r", "c", "s", "i", "n", "e">>, function),
     Suggestion(<<"r", "a", "n", "d", "o", "m", "_", "b", "e", "t", "a">>, function),
     Suggestion(<<"r", "a", "n", "d", "o", "m", "_", "g", "a", "m", "m", "a">>, function),
     Suggestion(<<"t", "r", "i">>, function),
     Suggestion(<<"r", "a", "n", "d", "o", "m", "_", "w", "e", "i", "b", "u", "l", "l">>, function) >>

(* ------------------------------ xpaths -------------------------------- *)
QueriesSuffix == <<"/", "q", "u", "e", "r", "i", "e", "s", "!">>

ParameterSuffix == <<"/", "p", "a", "r", "a", "m", "e", "t", "e", "r", "!">>

GuardSuffix == <<"l", "a", "b", "e", "l", "[", "@", "k", "i", "n", "d", "=", "\"", "g", "u", "a", "r", "d", "\"", "]">>

InvariantSuffix == <<"l", "a", "b", "e", "l", "[", "@", "k", "i", "n", "d", "=", "\"", "i", "n", "v", "a", "r", "i", "a", "n", "t", "\"", "]">>

ExponentialrateSuffix == <<"l", "a", "b", "e", "l", "[", "@", "k", "i", "n", "d", "=", "\"", "e", "x", "p", "o", "n", "e", "n", "t", "i", "a", "l", "r", "a", "t", "e", "\"", "]">>

SelectSuffix == <<"l", "a", "b", "e", "l", "[", "@", "k", "i", "n", "d", "=", "\"", "s", "e", "l", "e", "c", "t", "\"", "]">>

SynchronisationSuffix == <<"l", "a", "b", "e", "l", "[", "@", "k", "i", "n", "d", "=", "\"", "s", "y", "n", "c", "h", "r", "o", "n", "i", "s", "a", "t", "i", "o", "n", "\"", "]">>

AssignmentSuffix == <<"l", "a", "b", "e", "l", "[", "@", "k", "i", "n", "d", "=", "\"", "a", "s", "s", "i", "g", "n", "m", "e", "n", "t", "\"", "]">>

QueriesPath == <<"/", "n", "t", "a", "/", "q", "u", "e", "r", "i", "e", "s", "!">>

SystemPath == <<"/", "n", "t", "a", "/", "s", "y", "s", "t", "e", "m", "!">>

DeclarationPath == <<"/", "n", "t", "a", "/", "d", "e", "c", "l", "a", "r", "a", "t", "i", "o", "n">>

TemplateQueriesPath == <<"/", "t", "/", "q", "u", "e", "r", "i", "e", "s", "!">>

ParameterPath == <<"/", "n", "t", "a", "/", "t", "e", "m", "p", "l", "a", "t", "e", "/", "p", "a", "r", "a", "m", "e", "t", "e", "r", "!">>

GuardPath == <<"/", "t", "/", "l", "a", "b", "e", "l", "[", "@", "k", "i", "n", "d", "=", "\"", "g", "u", "a", "r", "d", "\"", "]">>

InvariantPath == <<"/", "t", "/", "l", "a", "b", "e", "l", "[", "@", "k", "i", "n", "d", "=", "\"", "i", "n", "v", "a", "r", "i", "a", "n", "t", "\"", "]">>

ExponentialratePath == <<"/", "t", "/", "l", "a", "b", "e", "l", "[", "@", "k", "i", "n", "d", "=", "\"", "e", "x", "p", "o", "n", "e", "n", "t", "i", "a", "l", "r", "a", "t", "e", "\"", "]">>

SelectPath == <<"/", "t", "/", "l", "a", "b", "e", "l", "[", "@", "k", "i", "n", "d", "=", "\"", "s", "e", "l", "e", "c", "t", "\"", "]">>

SynchronisationPath == <<"/", "t", "/", "l", "a", "b", "e", "l", "[", "@", "k", "i", "n", "d", "=", "\"", "s", "y", "n", "c", "h", "r", "o", "n", "i", "s", "a", "t", "i", "o", "n", "\"", "]">>

AssignmentPath == <<"/", "t", "/", "l", "a", "b", "e", "l", "[", "@", "k", "i", "n", "d", "=", "\"", "a", "s", "s", "i", "g", "n", "m", "e", "n", "t", "\"", "]">>

(* ------------------------------- types -------------------------------- *)
\* A UTAP type is a node with a kind and labelled children.
Type(k, ch) == [kind |-> k, children |-> ch]

Child(l, t) == [label |-> l, type |-> t]

size(t) == Len(t.children)

\* type.get(i) and type.get_label(i), i counted from 0 as in the code.
get(t, i) == t.children[i + 1].type

get_label(t, i) == t.children[i + 1].label

\* type.is(kind): the kind predicates of the type library, read on the node's kind.
is(t, k) == t.kind = k

RECURSIVE sym_type(_)
sym_type(t) ==
  IF is(t, "CHANNEL") THEN channel
  ELSE IF \/ is(t, "CLOCK") \/ is(t, "INT") \/ is(t, "BOOL") \/ is(t, "DOUBLE")
          \/ is(t, "STRING") \/ is(t, "RECORD") THEN variable
  ELSE IF is(t, "TYPEDEF") THEN type
  ELSE IF is(t, "FUNCTION") \/ is(t, "FUNCTION_EXTERNAL") THEN function
  ELSE IF is(t, "ARRAY") THEN sym_type(get(t, 0))
  ELSE unknown

is_struct(sym) == size(sym.type) = 1 /\ is(get(sym.type, 0), "RECORD")

is_template(sym) == is(sym.type, "INSTANCE")

(* --------------------------- ResultBuilder ---------------------------- *)
\* Where a suggestion came from: kept beside items, never read by the code.
Origin(f, i) == [from |-> f, index |-> i]

\* A builder that is default-initialised: the mask is what its byte held.
StaleBuilder ==
  [items |-> << >>, origin |-> << >>, prefix |-> << >>,
   type_filter_mask |-> type_filter_mask]

\* ResultBuilder{}: value-initialisation, empty items and prefix, mask zero.
FreshBuilder ==
  [items |-> << >>, origin |-> << >>, prefix |-> << >>, type_filter_mask |-> 0]

set_ignored_mask(b, ignore_mask) == [b EXCEPT !.type_filter_mask = ignore_mask % Byte]

set_prefix(b, new_prefix) == [b EXCEPT !.prefix = new_prefix]

\* An add_item without the mask test.
add_item_unfiltered(b, item, t, org) ==
  [b EXCEPT !.items = Append(@, Suggestion(item, t)), !.origin = Append(@, org)]

add_item(b, item, t, org) ==
  IF BitAnd(b.type_filter_mask, t) = 0
  THEN [b EXCEPT !.items = Append(@, Suggestion(item, t)), !.origin = Append(@, org)]
  ELSE b

\* copy_if of one container into items under the type check.
copy_if(b, container) ==
  LET type_check(s) == BitAnd(b.type_filter_mask, s.type) = 0
      copied == SelectSeq(container, type_check)
  IN [b EXCEPT !.items = @ \o copied,
               !.origin = @ \o [j \in 1..Len(copied) |-> Origin("default", 0)]]

\* add_items(container...): the fold over the pack, left to right.
RECURSIVE add_items(_, _)
add_items(b, containers) ==
  IF containers = << >> THEN b
  ELSE add_items(copy_if(b, Head(containers)), Tail(containers))

\* A dispatch that knows the query vocabulary only for the query context itself.
DefaultsFor_exact_queries(xpath) ==
  IF xpath = QueriesPath THEN <<queries_items, builtin_functions>>
  ELSE IF ends_with(xpath, ParameterSuffix) THEN <<parameter_items>>
  ELSE IF ends_with(xpath, GuardSuffix) THEN <<guard_items, builtin_functions>>
  ELSE <<default_items, builtin_functions>>

DefaultsFor(xpath) ==
  IF ends_with(xpath, QueriesSuffix) THEN <<queries_items, builtin_functions>>
  ELSE IF ends_with(xpath, ParameterSuffix) THEN <<parameter_items>>
  ELSE IF ends_with(xpath, GuardSuffix) THEN <<guard_items, builtin_functions>>
  ELSE <<default_items, builtin_functions>>

add_defaults(b, xpath) == add_items(b, DefaultsFor(xpath))

RECURSIVE add_labels(_, _, _)
add_labels(b, t, i) ==
  IF i >= size(t) THEN b
  ELSE add_labels(add_item(b, b.prefix \o get_label(t, i), variable, Origin("field", i)),
                  t, i + 1)

\* An add_struct that does not unwrap the outer layers.
add_struct_shallow(b, t) ==
  IF size(t) = 0 \/ t.kind # "RECORD" THEN b ELSE add_labels(b, t, 0)

RECURSIVE add_struct(_, _)
add_struct(b, t) ==
  IF size(t) = 0 THEN b
  ELSE IF t.kind # "RECORD" THEN add_struct(b, get(t, 0))
  ELSE add_labels(b, t, 0)

RECURSIVE add_names(_, _, _, _, _)
add_names(b, names, i, t, from) ==
  IF i > Len(names) THEN b
  ELSE add_names(add_item(b, b.prefix \o names[i], t, Origin(from, i)),
                 names, i + 1, t, from)

\* The location loop of add_template.
RECURSIVE add_locations(_, _, _)
add_locations(b, names, i) ==
  IF i > Len(names) THEN b
  ELSE add_locations(IF ~is_name_autogenerated(names[i])
                     THEN add_item(b, b.prefix \o names[i], unknown, Origin("location", i))
                     ELSE b,
                     names, i + 1)

add_template(b, templ) ==
  add_locations(
    add_names(add_names(b, templ.variables, 1, variable, "variable"),
              templ.functions, 1, function, "function"),
    templ.locations, 1)

get_items(b) == b.items

(* ------------------------------ document ------------------------------ *)
\* An optional value is the empty tuple (nullopt) or a one-element tuple.
Symbol(n, t, f) == [name |-> n, type |-> t, frame |-> f]

SymbolEntity(sym) == [tag |-> "symbol", symbol |-> sym]

TypeEntity(t) == [tag |-> "type", type |-> t]

Template(vs, fs, ls) == [variables |-> vs, functions |-> fs, locations |-> ls]

\* The document service, as the handler sees it: the declarations block an
\* xpath and offset lead to, the entity a dotted name resolves to, the
\* template of a process name, and the symbols the walker hands to its callback.
navigate_xpath(d, xpath, offset) == [frame |-> d.frame]

find_declaration(d, decls, name) ==
  IF name \in DOMAIN d.declared THEN d.declared[name] ELSE << >>

find_process(d, name) ==
  IF name \in DOMAIN d.templates THEN d.templates[name] ELSE << >>

visit_symbols(d, decls) == d.visited

(* ------------------------------ handler ------------------------------- *)
select_mask(results, xpath) ==
  IF ends_with(xpath, ParameterSuffix)
    THEN set_ignored_mask(results, Complement(type))
  ELSE IF ends_with(xpath, InvariantSuffix)
    THEN set_ignored_mask(results, Complement(BitOr(variable, function)))
  ELSE IF ends_with(xpath, ExponentialrateSuffix)
    THEN set_ignored_mask(results, Complement(variable))
  ELSE IF ends_with(xpath, SelectSuffix)
    THEN set_ignored_mask(results, Complement(type))
  ELSE IF ends_with(xpath, GuardSuffix)
    THEN set_ignored_mask(results, Complement(BitOr(variable, function)))
  ELSE IF ends_with(xpath, SynchronisationSuffix)
    THEN set_ignored_mask(results, Complement(channel))
  ELSE IF ends_with(xpath, AssignmentSuffix)
    THEN set_ignored_mask(results, Complement(BitOr(variable, function)))
  ELSE results

is_query(id) == id.xpath = QueriesPath

\* A gate that tests the suffix of the xpath, as the vocabulary dispatch does.
use_templates_by_suffix(id) ==
  ends_with(id.xpath, QueriesSuffix) \/ id.xpath = SystemPath

use_templates(id) == is_query(id) \/ id.xpath = SystemPath

\* identifier.substr(0, offset) and identifier.substr(0, offset + 1), where
\* offset is the 1-based position of the last dot.
head_of(identifier, offset) == SubSeq(identifier, 1, offset - 1)

\* A prefix that stops before the dot.
prefix_without_dot(identifier, offset) == SubSeq(identifier, 1, offset - 1)

prefix_of(identifier, offset) == SubSeq(identifier, 1, offset)

\* std::visit over the resolved entity.
visit_entity(results, d, id, entity) ==
  IF entity.tag = "symbol"
  THEN LET sym == entity.symbol IN
       IF is_template(sym) /\ is_query(id)
       THEN LET proc == find_process(d, sym.name) IN
            IF proc # << >> THEN add_template(results, proc[1]) ELSE results
       ELSE IF is_struct(sym) THEN add_struct(results, get(sym.type, 0))
       ELSE results
  ELSE add_struct(results, entity.type)

\* A visibility test that lets the symbol at the cursor through.
is_symbol_visible_inclusive(symbol, range, decls, id) ==
  symbol.frame # decls.frame \/ range.begOffset <= id.offset

is_symbol_visible(symbol, range, decls, id) ==
  symbol.frame # decls.frame \/ range.begOffset < id.offset

\* The callback of visit_symbols, applied to the k-th visited symbol.
visit_symbol(results, visit, k, decls, id) ==
  IF is_symbol_visible(visit.symbol, visit.range, decls, id)
  THEN IF ~is_template(visit.symbol)
       THEN add_item(results, visit.symbol.name, sym_type(visit.symbol.type),
                     Origin("symbol", k))
       ELSE IF use_templates(id)
       THEN add_item(results, visit.symbol.name, process, Origin("symbol", k))
       ELSE results
  ELSE results

RECURSIVE walk(_, _, _, _, _)
walk(results, visited, k, decls, id) ==
  IF k > Len(visited) THEN results
  ELSE walk(visit_symbol(results, visited[k], k, decls, id), visited, k + 1, decls, id)

\* The body of the "autocomplete" command; its value is the builder at return.
autocomplete(d, id) ==
  LET results == select_mask(FreshBuilder, id.xpath)
      decls == navigate_xpath(d, id.xpath, id.offset)
      offset == find_last_of(id.identifier, ".")
  IN IF offset # 0
     THEN LET entity == find_declaration(d, decls, head_of(id.identifier, offset))
          IN IF entity # << >>
             THEN visit_entity(set_prefix(results, prefix_of(id.identifier, offset)),
                               d, id, entity[1])
             ELSE results
     ELSE walk(add_defaults(results, id.xpath), visit_symbols(d, decls), 1, decls, id)

(* ------------------------- documents and requests --------------------- *)
IntType == Type("INT", << >>)

\* struct { int a; int b; }
RecordAB == Type("RECORD", <<Child(<<"a">>, IntType), Child(<<"b">>, IntType)>>)

\* struct { int a; int _id0; }
RecordAId == Type("RECORD", <<Child(<<"a">>, IntType),
                              Child(<<"_", "i", "d", "0">>, IntType)>>)

ArrayOf(t) == Type("ARRAY", <<Child(<< >>, t), Child(<< >>, IntType)>>)

Frames == {"global", "local"}

\* Name and type of the symbols a walk may meet: int x; chan c[..]; a template
\* instance P; typedef int T.
WalkSymbols ==
  { [name |-> <<"x">>, type |-> IntType],
    [name |-> <<"c">>, type |-> ArrayOf(Type("CHANNEL", << >>))],
    [name |-> <<"P">>, type |-> Type("INSTANCE", << >>)],
    [name |-> <<"T">>, type |-> Type("TYPEDEF", <<Child(<< >>, IntType)>>)] }

Visits ==
  { [symbol |-> Symbol(s.name, s.type, f), range |-> [begOffset |-> o]] :
      s \in WalkSymbols, f \in Frames, o \in 0..MaxOffset }

Heads == {<<"s">>, <<"P">>}

TemplateNames == {<<"P">>}

NoDeclarations == [h \in Heads |-> << >>]

NoTemplates == [n \in TemplateNames |-> << >>]

\* What the head "s" may resolve to.
DeclaredS ==
  { << >>,
    <<SymbolEntity(Symbol(<<"s">>, Type("CONSTANT", <<Child(<< >>, RecordAB)>>), "global"))>>,
    <<SymbolEntity(Symbol(<<"s">>, Type("RECORD", <<Child(<<"r">>, RecordAId)>>), "global"))>>,
    <<SymbolEntity(Symbol(<<"s">>, RecordAB, "global"))>>,
    <<SymbolEntity(Symbol(<<"s">>, IntType, "global"))>>,
    <<TypeEntity(RecordAB)>>,
    <<TypeEntity(ArrayOf(ArrayOf(RecordAId)))>>,
    <<TypeEntity(ArrayOf(IntType))>>,
    <<TypeEntity(Type("RECORD", << >>))>> }

\* What the head "P" may resolve to: nothing, a template instance without
\* parameters, one with a single record parameter, one with two parameters.
DeclaredP ==
  { << >>,
    <<SymbolEntity(Symbol(<<"P">>, Type("INSTANCE", << >>), "global"))>>,
    <<SymbolEntity(Symbol(<<"P">>, Type("INSTANCE", <<Child(<<"p">>, RecordAB)>>), "global"))>>,
    <<SymbolEntity(Symbol(<<"P">>, Type("INSTANCE", <<Child(<<"p">>, RecordAB),
                                                      Child(<<"n">>, IntType)>>), "global"))>> }

Templates ==
  { << >>,
    <<Template(<<<<"y">>, <<"_", "i", "d", "0">>>>,
               <<<<"g">>>>,
               <<<<"L">>, <<"_", "i", "d", "0">>, <<"_", "i", "d", "x">>,
                 <<"_", "i", "d", "1", "2">>>>)>>,
    <<Template(<< >>, << >>, <<<<"_", "i", "d", "7">>>>)>> }

\* Documents whose interest is the visibility walk.
WalkDocs ==
  { [visited |-> v, frame |-> f, declared |-> NoDeclarations, templates |-> NoTemplates] :
      v \in UNION {[1..n -> Visits] : n \in 0..MaxSymbols}, f \in Frames }

\* Documents whose interest is member resolution.
MemberDocs ==
  { [visited |-> << >>, frame |-> "global",
     declared |-> [h \in Heads |-> IF h = <<"s">> THEN s ELSE p],
     templates |-> [n \in TemplateNames |-> t]] :
      s \in DeclaredS, p \in DeclaredP, t \in Templates }

Docs == WalkDocs \cup MemberDocs

XPaths ==
  { QueriesPath, SystemPath, DeclarationPath, TemplateQueriesPath, ParameterPath,
    GuardPath, InvariantPath, ExponentialratePath, SelectPath, SynchronisationPath,
    AssignmentPath }

Identifiers ==
  { << >>, <<"s", ".">>, <<"P", ".">>, <<"s", ".", "a">>, <<"q", ".">> }

Requests == [xpath : XPaths, offset : 0..MaxOffset, identifier : Identifiers]

(* ------------------------------ machine ------------------------------- *)
Init ==
  /\ doc \in Docs
  /\ pc = "idle"
  /\ request = << >>
  /\ items = << >>
  /\ origin = << >>
  /\ prefix = << >>
  /\ type_filter_mask = 0
  /\ first = << >>
  /\ served = 0

\* One "autocomplete" command, from the builder's construction to the return.
Serve(id) ==
  /\ pc = "idle"
  /\ LET results == autocomplete(doc, id) IN
       /\ items' = get_items(results)
       /\ origin' = results.origin
       /\ prefix' = results.prefix
       /\ type_filter_mask' = results.type_filter_mask
  /\ request' = <<id>>
  /\ pc' = "reply"
  /\ doc' = doc

Autocomplete(id) == Serve(id) /\ UNCHANGED <<first, served>>

\* The server sends the returned list; the builder is gone, the byte that
\* held its mask keeps what was last written to it.
Deliver ==
  /\ pc = "reply"
  /\ pc' = "idle"
  /\ request' = << >>
  /\ items' = << >>
  /\ origin' = << >>
  /\ prefix' = << >>
  /\ UNCHANGED <<doc, type_filter_mask, first, served>>

Next == (\E id \in Requests : Autocomplete(id)) \/ Deliver

Spec == Init /\ [][Next]_vars

(* ---------------------- repeated-request machine ---------------------- *)
\* A few documents and requests, enough for two requests to differ in mask,
\* prefix and result.
RepeatDocs ==
  { d \in WalkDocs : /\ Len(d.visited) = 1
                     /\ d.frame = "global"
                     /\ d.visited[1].range.begOffset = 0 }
  \cup { d \in MemberDocs : d.declared[<<"P">>] = << >> /\ d.templates[<<"P">>] = << >> }

RepeatRequests ==
  [xpath : {DeclarationPath, GuardPath, SynchronisationPath},
   offset : 0..MaxOffset,
   identifier : {<< >>, <<"s", ".">>}]

InitRepeat ==
  /\ doc \in RepeatDocs
  /\ pc = "idle"
  /\ request = << >>
  /\ items = << >>
  /\ origin = << >>
  /\ prefix = << >>
  /\ type_filter_mask = 0
  /\ first = << >>
  /\ served = 0

\* The same command, with the first request, its document and its answer
\* remembered, and whether another request has been served since.
AutocompleteRecorded(id) ==
  /\ served < MaxRequests
  /\ Serve(id)
  /\ served' = served + 1
  /\ first' = IF first = << >>
              THEN <<[request |-> id, doc |-> doc, items |-> items', between |-> FALSE]>>
              ELSE IF id # first[1].request
              THEN <<[first[1] EXCEPT !.between = TRUE]>>
              ELSE first

NextRepeat == (\E id \in RepeatRequests : AutocompleteRecorded(id)) \/ Deliver

SpecRepeat == InitRepeat /\ [][NextRepeat]_vars

(* ------------------------------ properties ---------------------------- *)
\* The request being answered, once the handler has returned.
Replied == pc = "reply"

Dotted(id) == \E i \in 1..Len(id.identifier) : id.identifier[i] = "."

\* The identifier up to and including its last dot, found from the right.
ThroughLastDot(identifier) ==
  LET dots == {i \in 1..Len(identifier) : identifier[i] = "."}
      last == CHOOSE i \in dots : \A j \in dots : j <= i
  IN SubSeq(identifier, 1, last)

BeforeLastDot(identifier) ==
  SubSeq(identifier, 1, Len(ThroughLastDot(identifier)) - 1)

StartsWith(s, p) == Len(s) >= Len(p) /\ SubSeq(s, 1, Len(p)) = p

AfterPrefix(n) == SubSeq(n, Len(prefix) + 1, Len(n))

\* "_id" followed by one or more decimal digits.
MatchesIdDigits(n) ==
  /\ Len(n) >= 4
  /\ SubSeq(n, 1, 3) = <<"_", "i", "d">>
  /\ \A j \in 4..Len(n) : n[j] \in Digits

Emitted(from, k) == \E i \in 1..Len(origin) : origin[i] = Origin(from, k)

SymKinds == {function, variable, channel, type, process, unknown}

\* The dispatch table of the context classifier, row by row.
RowAdmissible(xpath) ==
  IF ends_with(xpath, QueriesSuffix) THEN SymKinds
  ELSE IF ends_with(xpath, ParameterSuffix) THEN {type}
  ELSE IF ends_with(xpath, GuardSuffix) THEN {variable, function}
  ELSE IF ends_with(xpath, InvariantSuffix) THEN {variable, function}
  ELSE IF ends_with(xpath, ExponentialrateSuffix) THEN {variable}
  ELSE IF ends_with(xpath, SelectSuffix) THEN {type}
  ELSE IF ends_with(xpath, SynchronisationSuffix) THEN {channel}
  ELSE IF ends_with(xpath, AssignmentSuffix) THEN {variable, function}
  ELSE SymKinds

RowVocabulary(xpath) ==
  IF ends_with(xpath, QueriesSuffix) THEN queries_items \o builtin_functions
  ELSE IF ends_with(xpath, ParameterSuffix) THEN parameter_items
  ELSE IF ends_with(xpath, GuardSuffix) THEN guard_items \o builtin_functions
  ELSE default_items \o builtin_functions

Restricted(vocabulary, kinds) ==
  LET admitted(s) == s.type \in kinds IN SelectSeq(vocabulary, admitted)

\* The entity the head of a dotted request resolves to (empty when none).
Resolved(id) ==
  LET head == BeforeLastDot(id.identifier)
  IN IF head \in DOMAIN doc.declared THEN doc.declared[head] ELSE << >>

\* The first RECORD node met by descending to the first child (empty when
\* the descent ends at a childless type first).
RECURSIVE FirstRecord(_)
FirstRecord(t) ==
  IF t.children = << >> THEN << >>
  ELSE IF t.kind = "RECORD" THEN <<t>>
  ELSE FirstRecord(t.children[1].type)

\* One suggestion P+label of kind variable per label of that record, if the
\* row of the xpath admits variables.
RecordMembers(id, t) ==
  LET rec == FirstRecord(t)
  IN IF rec = << >> \/ variable \notin RowAdmissible(id.xpath) THEN << >>
     ELSE [i \in 1..Len(rec[1].children) |->
             Suggestion(ThroughLastDot(id.identifier) \o rec[1].children[i].label, variable)]

RecordSymbol(sym) ==
  Len(sym.type.children) = 1 /\ sym.type.children[1].type.kind = "RECORD"

InstanceSymbol(sym) == sym.type.kind = "INSTANCE"

NotAutogenerated(names) ==
  LET keep(n) == ~MatchesIdDigits(n) IN SelectSeq(names, keep)

\* Variables, functions and non-auto-generated locations of a template, each
\* behind the prefix P.
TemplateMembers(id, templ) ==
  LET P == ThroughLastDot(id.identifier)
      locs == NotAutogenerated(templ.locations)
  IN [i \in 1..Len(templ.variables) |-> Suggestion(P \o templ.variables[i], variable)]
     \o [i \in 1..Len(templ.functions) |-> Suggestion(P \o templ.functions[i], function)]
     \o [i \in 1..Len(locs) |-> Suggestion(P \o locs[i], unknown)]

SeqToBag(s) ==
  [x \in {s[i] : i \in 1..Len(s)} |-> Cardinality({i \in 1..Len(s) : s[i] = x})]

\* C1. Filter soundness: every suggestion of a returned list has a kind the
\* mask of the request does not ignore (mask & kind == 0).
C1_FilterSoundness ==
  \A i \in 1..Len(items) : BitAnd(type_filter_mask, items[i].type) = 0

\* A walk met a visible symbol of an ignored kind, and the list is not empty.
C1_Witness ==
  /\ Replied /\ ~Dotted(request[1]) /\ items # << >> /\ type_filter_mask # 0
  /\ \E k \in 1..Len(doc.visited) :
       /\ doc.visited[k].symbol.frame # doc.frame
       /\ doc.visited[k].symbol.type.kind = "INT"
       /\ variable \notin RowAdmissible(request[1].xpath)

\* C2 as stated. No returned name, from whatever source, matches _id<digits>
\* after the prefix.
C2_NoAutogeneratedNameReturned ==
  \A i \in 1..Len(items) : ~MatchesIdDigits(AfterPrefix(items[i].name))

\* C2 as amended. No suggestion that comes from a template location has a
\* name matching _id<digits> after the prefix.
C2_NoAutogeneratedLocationReturned ==
  \A i \in 1..Len(items) :
    origin[i].from = "location" => ~MatchesIdDigits(AfterPrefix(items[i].name))

\* A template with auto-generated locations was enumerated in query context.
C2_Witness ==
  /\ Replied /\ request[1].xpath = QueriesPath /\ request[1].identifier = <<"P", ".">>
  /\ Resolved(request[1]) # << >> /\ doc.templates[<<"P">>] # << >>
  /\ \E l \in 1..Len(doc.templates[<<"P">>][1].locations) :
       MatchesIdDigits(doc.templates[<<"P">>][1].locations[l])
  /\ \E i \in 1..Len(items) : origin[i].from = "location"

\* C3. Forward-reference exclusion: in an undotted request a walked symbol
\* of the located frame whose range begins at or after the request offset
\* contributes nothing; one that begins before it is treated as visible.
C3_ForwardReferenceExclusion ==
  (Replied /\ ~Dotted(request[1])) =>
    \A k \in 1..Len(doc.visited) :
      LET sym == doc.visited[k].symbol
          b == doc.visited[k].range.begOffset
      IN sym.frame = doc.frame =>
           /\ b >= request[1].offset => ~Emitted("symbol", k)
           /\ (/\ b < request[1].offset
               /\ sym.type.kind # "INSTANCE"
               /\ sym_type(sym.type) \in RowAdmissible(request[1].xpath))
                => Emitted("symbol", k)

\* A symbol of the located frame begins exactly at the request offset.
C3_Witness ==
  /\ Replied /\ ~Dotted(request[1])
  /\ \E k \in 1..Len(doc.visited) :
       /\ doc.visited[k].symbol.frame = doc.frame
       /\ doc.visited[k].range.begOffset = request[1].offset
       /\ doc.visited[k].symbol.type.kind = "INT"
       /\ variable \in RowAdmissible(request[1].xpath)

\* C4. Template gating: in an undotted request a visible template instance
\* is returned, with kind process, exactly when the xpath is /nta/queries!
\* or /nta/system!; under any other xpath it contributes nothing.
C4_TemplateGating ==
  (Replied /\ ~Dotted(request[1])) =>
    \A k \in 1..Len(doc.visited) :
      LET sym == doc.visited[k].symbol
          b == doc.visited[k].range.begOffset
      IN (sym.type.kind = "INSTANCE" /\ (sym.frame # doc.frame \/ b < request[1].offset)) =>
           IF request[1].xpath \in {QueriesPath, SystemPath}
           THEN \E i \in 1..Len(items) :
                  /\ origin[i] = Origin("symbol", k)
                  /\ items[i] = Suggestion(sym.name, process)
           ELSE ~Emitted("symbol", k)

\* A visible template instance under an xpath that only ends with /queries!.
C4_Witness ==
  /\ Replied /\ ~Dotted(request[1]) /\ request[1].xpath = TemplateQueriesPath
  /\ \E k \in 1..Len(doc.visited) :
       /\ doc.visited[k].symbol.type.kind = "INSTANCE"
       /\ doc.visited[k].symbol.frame # doc.frame

\* C5. Guard vocabulary: an undotted request under a guard label returns
\* {true, unknown}, {false, unknown} and {sin, function}, and nothing of
\* kind type.
C5_GuardVocabulary ==
  (Replied /\ ~Dotted(request[1]) /\ ends_with(request[1].xpath, GuardSuffix)) =>
    /\ \E i \in 1..Len(items) : items[i] = Suggestion(<<"t", "r", "u", "e">>, unknown)
    /\ \E i \in 1..Len(items) : items[i] = Suggestion(<<"f", "a", "l", "s", "e">>, unknown)
    /\ \E i \in 1..Len(items) : items[i] = Suggestion(<<"s", "i", "n">>, function)
    /\ \A i \in 1..Len(items) : items[i].type # type

\* C6. Prefix preservation: in a dotted request every returned name starts
\* with the identifier up to and including its last dot, nothing comes from
\* the default vocabularies or the walk, and an unresolved head gives the
\* empty list.
C6_PrefixPreservation ==
  (Replied /\ Dotted(request[1])) =>
    /\ \A i \in 1..Len(items) :
         /\ StartsWith(items[i].name, ThroughLastDot(request[1].identifier))
         /\ origin[i].from \notin {"default", "symbol"}
    /\ Resolved(request[1]) = << >> => items = << >>

\* A dotted request whose last dot is not its last character, with members.
C6_Witness ==
  /\ Replied /\ request[1].identifier = <<"s", ".", "a">> /\ items # << >>

C8_ContextDispatch ==
  (Replied /\ ~Dotted(request[1])) =>
    LET expected == Restricted(RowVocabulary(request[1].xpath),
                               RowAdmissible(request[1].xpath))
        n == Cardinality({i \in 1..Len(origin) : origin[i].from = "default"})
    IN /\ n = Len(expected)
       /\ SubSeq(items, 1, n) = expected
       /\ \A i \in 1..n : origin[i].from = "default"
       /\ \A k \in SymKinds :
            BitAnd(type_filter_mask, k) = 0 <=> k \in RowAdmissible(request[1].xpath)

\* An undotted request under an xpath ending with /queries! that is not the
\* query context itself.
C8_Witness ==
  /\ Replied /\ ~Dotted(request[1]) /\ request[1].xpath = TemplateQueriesPath
  /\ items # << >>

\* C9. Template members only in query context: when the head of a dotted
\* request is a template instance, the result is the template's variables,
\* functions and non-auto-generated locations if the xpath is /nta/queries!
\* and the template is found, and the empty list otherwise.
C9_TemplateMembersOnlyInQuery ==
  (/\ Replied /\ Dotted(request[1]) /\ Resolved(request[1]) # << >>
   /\ Resolved(request[1])[1].tag = "symbol"
   /\ InstanceSymbol(Resolved(request[1])[1].symbol)) =>
     LET name == Resolved(request[1])[1].symbol.name
         templ == IF name \in DOMAIN doc.templates THEN doc.templates[name] ELSE << >>
     IN IF request[1].xpath = QueriesPath /\ templ # << >>
        THEN items = TemplateMembers(request[1], templ[1])
        ELSE items = << >>

\* C10. Record members: a type, or a symbol whose type has one element that
\* is a record, gives one suggestion P+label of kind variable per label of
\* the first record found by descending first children (none if the descent
\* ends first), subject to the mask; any other symbol that is not a template
\* instance in query context gives the empty list.
C10_RecordMembers ==
  (Replied /\ Dotted(request[1]) /\ Resolved(request[1]) # << >>) =>
    LET e == Resolved(request[1])[1]
    IN IF e.tag = "type"
       THEN items = RecordMembers(request[1], e.type)
       ELSE ~(InstanceSymbol(e.symbol) /\ request[1].xpath = QueriesPath) =>
              IF RecordSymbol(e.symbol)
              THEN items = RecordMembers(request[1], e.symbol.type.children[1].type)
              ELSE items = << >>

\* A type that is an array of arrays of records was unwrapped to its labels.
C10_Witness ==
  /\ Replied /\ Dotted(request[1]) /\ Resolved(request[1]) # << >>
  /\ Resolved(request[1])[1].tag = "type"
  /\ Resolved(request[1])[1].type.kind = "ARRAY"
  /\ Len(items) = 2
====
